---- MODULE Spec2Model ----
(***************************************************************************)
(* A model of src/sharedptr.cpp: the control blocks, SharedPtr, WeakPtr    *)
(* and the construction entry points allocateShared / makeShared.          *)
(*                                                                         *)
(* The client program owns NumShared SharedPtr variables and NumWeak       *)
(* WeakPtr variables whose lifetimes it begins and ends at will.  The      *)
(* managed type is instantiated as                                         *)
(*     struct Node { WeakPtr<Node> self; };                                *)
(* so that a managed object can itself own a WeakPtr (to its own block or  *)
(* to another one); that member is destroyed with the object.              *)
(*                                                                         *)
(* Every action is one complete member function call, with the calls it    *)
(* makes (temporaries, their destructors, the virtual calls on the block)  *)
(* included.  The calls the last operation made on control blocks (and a   *)
(* call of lock() itself) are logged in `calls`; the per-block totals are  *)
(* kept in destroy_calls, deallocate_calls and deleter_args.               *)
(***************************************************************************)
EXTENDS Integers, Sequences, FiniteSets, TLC

\* ------------------------------------------------------------------ bounds
NumShared == 2      \* SharedPtr variables of the client
NumWeak   == 1      \* WeakPtr variables of the client
MaxBlocks == 1      \* control blocks allocated over a run of Spec
HeapBlocks == 2     \* control blocks allocated over a run of SpecFullHeap

\* --------------------------------------------------------------- constants
Null  == 0          \* nullptr
NoPtr == -1         \* a variable whose lifetime has not begun or has ended

Shareds  == 1..NumShared
Weaks    == 1..NumWeak
Blocks   == 1..HeapBlocks

\* The address of the object embedded in inline block b.
ObjAddr(b) == b

\* The address of the object the client allocated (new Node) before handing
\* it to the SharedPtr that creates block b: distinct from every other
\* object's address.
RawAddr(b) == HeapBlocks + b

\* The raw pointers the client may hand to the constructor of block b.
RawPtrs(b) == {Null, RawAddr(b)}

\* Allocator instances (of a type whose instances carry state): a
\* default-constructed one, and one the client set up and supplies.  Copies
\* and rebound copies of an instance are that instance.
DefaultAlloc == "Allocator()"
Allocators   == {DefaultAlloc, "arena"}

\* The allocator makeShared hands to allocateShared: std::allocator<Y>().
MakeSharedAllocators == {DefaultAlloc}

VARIABLES
    blocks,            \* [Blocks -> block record]: the heap of control blocks
    sp,                \* [Shareds -> NoPtr | cb]: SharedPtr::cb of each variable
    wp,                \* [Weaks -> NoPtr | cb]: WeakPtr::cb of each variable
    calls,             \* the block operations called by the last operation
    destroy_calls,     \* [Blocks -> Nat]: calls of destroy() so far
    deallocate_calls,  \* [Blocks -> Nat]: calls of deallocate() so far
    deleter_args,      \* [Blocks -> Seq]: arguments the deleter was called with
    tracing            \* whether the run also logs the client's own operations

vars == <<blocks, sp, wp, calls, destroy_calls, deallocate_calls, deleter_args,
          tracing>>

\* Memory that was never allocated.
UnusedBlock ==
    [st |-> "unused", kind |-> "none", ptr |-> Null,
     shared_count |-> 0, weak_count |-> 0, obj |-> FALSE, self |-> Null,
     rebind_alloc |-> "none"]

\* Memory the allocator has no room for: it is never handed out.
NoRoom == [UnusedBlock EXCEPT !.st = "noroom"]

\* ControlBlockWithMakeShared(shared_count, weak_count, alloc, args...):
\* the object is embedded and alive, its WeakPtr member empty.
ControlBlockWithMakeShared(sc, wc, alloc) ==
    [st |-> "live", kind |-> "inline", ptr |-> Null,
     shared_count |-> sc, weak_count |-> wc, obj |-> TRUE, self |-> Null,
     rebind_alloc |-> alloc]

\* ControlBlockWithoutMakeShared(ptr, sc, wc, deleter, alloc): the object, if
\* any, lives at ptr.
ControlBlockWithoutMakeShared(ptr, sc, wc, alloc) ==
    [st |-> "live", kind |-> "external", ptr |-> ptr,
     shared_count |-> sc, weak_count |-> wc, obj |-> (ptr # Null), self |-> Null,
     rebind_alloc |-> alloc]

\* The machine state the nested calls of one operation thread through.
Cur ==
    [blk |-> blocks, calls |-> <<>>, ndestroy |-> destroy_calls,
     ndealloc |-> deallocate_calls, deleted |-> deleter_args]

\* A logged call: on block b (Null for a call on an empty pointer), with the
\* counts of the block when the call is made.
Event(e, b, blk, arg) ==
    [e |-> e, b |-> b,
     sc |-> IF b = Null THEN 0 ELSE blk[b].shared_count,
     wc |-> IF b = Null THEN 0 ELSE blk[b].weak_count,
     arg |-> arg]

Log(M, e, b, arg) == [M EXCEPT !.calls = Append(@, Event(e, b, M.blk, arg))]

\* In a traced run the log of an operation opens with the operation itself:
\* its name, the block `this` referenced when it was called (Null for an empty
\* pointer or one under construction) with that block's counts, and the block
\* its argument referenced.
Op(M, e, b, arg) ==
    IF tracing
    THEN [M EXCEPT !.calls = <<Event(e, IF b = NoPtr THEN Null ELSE b, blocks, arg)>> \o @]
    ELSE M

\* --------------------------------------------------------- control blocks

\* BaseControlBlock::get: the stored pointer, or the embedded object's address.
BlockGet(blk, b) ==
    IF blk[b].kind = "external" THEN blk[b].ptr ELSE ObjAddr(b)

\* BaseControlBlock::deallocate: AllocTraits::deallocate(rebind_alloc, this, 1).
deallocate(M, b) ==
    [Log(M, "deallocate", b, M.blk[b].rebind_alloc)
       EXCEPT !.blk[b].st = "freed", !.ndealloc[b] = @ + 1]

\* SharedPtr::use_count / WeakPtr::use_count.
use_count(blk, cb) == IF cb # Null THEN blk[cb].shared_count ELSE 0

\* WeakPtr::expired.
expired(blk, cb) == use_count(blk, cb) = 0

\* (mutant) the constructor forgets `cb->weak_count++`.
WeakCtor_NoIncrement(M, cb) == M

\* WeakPtr::WeakPtr(BaseControlBlock*).
WeakCtor(M, cb) ==
    IF cb # Null THEN [M EXCEPT !.blk[cb].weak_count = @ + 1] ELSE M

\* WeakPtr::~WeakPtr.
WeakDtor(M, cb) ==
    IF cb = Null THEN M
    ELSE LET M1 == [M EXCEPT !.blk[cb].weak_count = @ - 1]
         IN  IF use_count(M1.blk, cb) + M1.blk[cb].weak_count = 0
             THEN deallocate(M1, cb)
             ELSE M1

\* The deleter called on the stored pointer (ControlBlockWithoutMakeShared).
deleter(M, b, p) ==
    [Log(M, "deleter", b, p) EXCEPT !.deleted[b] = Append(@, p)]

\* The managed object's destructor ~Node: it destroys the member `self`.
ObjectDtor(M, b) ==
    WeakDtor([M EXCEPT !.blk[b].obj = FALSE, !.blk[b].self = Null], M.blk[b].self)

\* (mutant) ControlBlockWithoutMakeShared::destroy without its null test.
destroy_NoNullCheck(M, b) ==
    LET M1 == [Log(M, "destroy", b, 0) EXCEPT !.ndestroy[b] = @ + 1]
    IN  IF M.blk[b].kind = "external"
        THEN ObjectDtor(deleter(M1, b, M.blk[b].ptr), b)
        ELSE ObjectDtor(M1, b)

\* (mutant) the null test of ControlBlockWithoutMakeShared::destroy inverted.
destroy_InvertedNullCheck(M, b) ==
    LET M1 == [Log(M, "destroy", b, 0) EXCEPT !.ndestroy[b] = @ + 1]
    IN  IF M.blk[b].kind = "external"
        THEN IF M.blk[b].ptr = Null
             THEN deleter(M1, b, M.blk[b].ptr)
             ELSE M1
        ELSE ObjectDtor(M1, b)

\* BaseControlBlock::destroy.  Inline: AllocTraits::destroy(rebind_alloc,
\* &object).  External: if (ptr != nullptr) deleter(ptr).
destroy(M, b) ==
    LET M1 == [Log(M, "destroy", b, 0) EXCEPT !.ndestroy[b] = @ + 1]
    IN  IF M.blk[b].kind = "external"
        THEN IF M.blk[b].ptr # Null
             THEN ObjectDtor(deleter(M1, b, M.blk[b].ptr), b)
             ELSE M1
        ELSE ObjectDtor(M1, b)

\* ------------------------------------------------------------- SharedPtr

\* (mutant) the constructor forgets `cb->shared_count++`.
SharedCtor_NoIncrement(M, cb) == M

\* SharedPtr::SharedPtr(BaseControlBlock*).
SharedCtor(M, cb) ==
    IF cb # Null THEN [M EXCEPT !.blk[cb].shared_count = @ + 1] ELSE M

\* The value `cb->weak_count` yields in ~SharedPtr after destroy() returned.
\* When destroy() has released the block (the object owned the last WeakPtr
\* to it) the read is a use after free: it yields u, zero or not.
WeakCountAfterDestroy(M, cb, u) ==
    IF M.blk[cb].st = "freed" THEN u ELSE M.blk[cb].weak_count

\* (mutant) the destructor destroys the object whatever the count has become.
SharedDtor_NoCountCheck(M, cb, u) ==
    IF cb = Null THEN M
    ELSE LET M2 == destroy([M EXCEPT !.blk[cb].shared_count = @ - 1], cb)
         IN  IF WeakCountAfterDestroy(M2, cb, u) = 0 THEN deallocate(M2, cb) ELSE M2

\* SharedPtr::~SharedPtr, when a read of freed memory yields u.
SharedDtor(M, cb, u) ==
    IF cb = Null THEN M
    ELSE LET M1 == [M EXCEPT !.blk[cb].shared_count = @ - 1]
         IN  IF M1.blk[cb].shared_count = 0
             THEN LET M2 == destroy(M1, cb)
                      M3 == IF M2.blk[cb].st = "freed"
                            THEN Log(M2, "read_freed", cb, 0)
                            ELSE M2
                  IN  IF WeakCountAfterDestroy(M2, cb, u) = 0
                      THEN deallocate(M3, cb)
                      ELSE M3
             ELSE M1

\* SharedPtr::get.
get(blk, cb) == IF cb = Null THEN Null ELSE BlockGet(blk, cb)

\* What a read of freed memory may yield: zero or something else.
FreedRead == {0, 1}

\* The states in which ~SharedPtr may leave the machine.
SharedDtorOutcomes(M, cb) == {SharedDtor(M, cb, u) : u \in FreedRead}

\* The block AllocTraits::allocate returns: memory never handed out before.
HasFree == \E b \in Blocks : blocks[b].st = "unused"
NextBlock == CHOOSE b \in Blocks :
                 /\ blocks[b].st = "unused"
                 /\ \A c \in Blocks : c < b => blocks[c].st # "unused"

\* A new variable of the client takes the first name that is free (the names
\* are interchangeable).
NewShared(s) == sp[s] = NoPtr /\ \A c \in Shareds : c < s => sp[c] # NoPtr
NewWeak(w)   == wp[w] = NoPtr /\ \A c \in Weaks : c < w => wp[c] # NoPtr

Commit(M) ==
    /\ blocks' = M.blk
    /\ calls' = M.calls
    /\ destroy_calls' = M.ndestroy
    /\ deallocate_calls' = M.ndealloc
    /\ deleter_args' = M.deleted
    /\ tracing' = tracing

\* A program that starts with no pointer, on a heap with room for MaxBlocks
\* control blocks.
Init ==
    /\ blocks = [b \in Blocks |-> IF b <= MaxBlocks THEN UnusedBlock ELSE NoRoom]
    /\ sp = [s \in Shareds |-> NoPtr]
    /\ wp = [w \in Weaks |-> NoPtr]
    /\ calls = <<>>
    /\ destroy_calls = [b \in Blocks |-> 0]
    /\ deallocate_calls = [b \in Blocks |-> 0]
    /\ deleter_args = [b \in Blocks |-> <<>>]
    /\ tracing = FALSE

\* SharedPtr() = default.
DefaultCtor(s) ==
    /\ NewShared(s)
    /\ sp' = [sp EXCEPT ![s] = Null]
    /\ Commit(Op(Cur, "SharedPtr()", Null, Null))
    /\ UNCHANGED wp

\* SharedPtr(size_t, size_t, Allocator, Args&&...): the memory is allocated,
\* then the block is constructed in it.  When the constructor of the managed
\* object throws, the exception leaves the constructor with the memory still
\* allocated and no block in it.
MakeSharedCtor(M, b, alloc, throws) ==
    LET M1 == Log([M EXCEPT !.blk[b].st = "raw"], "allocate", b, alloc)
    IN  IF throws THEN M1
        ELSE [M1 EXCEPT !.blk[b] = ControlBlockWithMakeShared(1, 0, alloc)]

\* allocateShared / makeShared: return SharedPtr<Y>(1, 0, alloc, args...).
\* When it throws, no SharedPtr comes into being.
allocateShared(s, alloc, throws) ==
    /\ NewShared(s)
    /\ HasFree
    /\ Commit(Op(MakeSharedCtor(Cur, NextBlock, alloc, throws), "allocateShared", Null, Null))
    /\ sp' = IF throws THEN sp ELSE [sp EXCEPT ![s] = NextBlock]
    /\ UNCHANGED wp

\* explicit SharedPtr(Y* ptr, Deleter, Allocator alloc): the constructor is
\* called with alloc; `rebind_alloc` is default-constructed, allocates the
\* memory and is what the block is given as its allocator.
RawCtor(M, b, p, alloc) ==
    LET rebind_alloc == DefaultAlloc
        M1 == Log(M, "SharedPtr(ptr, deleter, alloc)", b, alloc)
        M2 == Log([M1 EXCEPT !.blk[b].st = "raw"], "allocate", b, rebind_alloc)
    IN  [M2 EXCEPT !.blk[b] = ControlBlockWithoutMakeShared(p, 1, 0, rebind_alloc)]

SharedFromRaw(s) ==
    /\ NewShared(s)
    /\ HasFree
    /\ \E p \in RawPtrs(NextBlock), alloc \in Allocators :
          Commit(Op(RawCtor(Cur, NextBlock, p, alloc), "SharedPtr(ptr)", Null, p))
    /\ sp' = [sp EXCEPT ![s] = NextBlock]
    /\ UNCHANGED wp

\* SharedPtr(const SharedPtr&).
CopyCtor(s, t) ==
    /\ NewShared(s)
    /\ sp[t] # NoPtr
    /\ Commit(Op(SharedCtor(Cur, sp[t]), "SharedPtr(copy)", Null, sp[t]))
    /\ sp' = [sp EXCEPT ![s] = sp[t]]
    /\ UNCHANGED wp

\* (mutant) the move constructor forgets `other_shared_ptr.cb = nullptr`.
MoveCtor_SourceKept(s, t) ==
    /\ NewShared(s)
    /\ sp[t] # NoPtr
    /\ Commit(Op(Cur, "SharedPtr(move)", Null, sp[t]))
    /\ sp' = [sp EXCEPT ![s] = sp[t]]
    /\ UNCHANGED wp

\* SharedPtr(SharedPtr<Y>&&).
MoveCtor(s, t) ==
    /\ NewShared(s)
    /\ sp[t] # NoPtr
    /\ Commit(Op(Cur, "SharedPtr(move)", Null, sp[t]))
    /\ sp' = [sp EXCEPT ![s] = sp[t], ![t] = Null]
    /\ UNCHANGED wp

\* ~SharedPtr on a variable of the client.
Dtor(s) ==
    /\ sp[s] # NoPtr
    /\ \E M \in SharedDtorOutcomes(Cur, sp[s]) : Commit(Op(M, "~SharedPtr", sp[s], Null))
    /\ sp' = [sp EXCEPT ![s] = NoPtr]
    /\ UNCHANGED wp

\* (mutant) the assignment overwrites cb and never releases what it held.
CopyAssignOutcomes_NoRelease(M, self, other) == {SharedCtor(M, other)}

\* (mutant) the assignment releases what it holds before it takes a reference
\* on the other block.
CopyAssignOutcomes_ReleaseFirst(M, self, other) ==
    {SharedCtor(M1, other) : M1 \in SharedDtorOutcomes(M, self)}

\* SharedPtr::operator=(const SharedPtr&): tmp(other); swap(tmp); ~tmp.
\* `self` is this->cb before the call: the temporary holds it after the swap.
CopyAssignOutcomes(M, self, other) == SharedDtorOutcomes(SharedCtor(M, other), self)

CopyAssign(s, t) ==
    /\ sp[s] # NoPtr
    /\ sp[t] # NoPtr
    /\ \E M \in CopyAssignOutcomes(Cur, sp[s], sp[t]) :
          Commit(Op(M, IF s = t THEN "self =" ELSE "=", sp[s], sp[t]))
    /\ sp' = [sp EXCEPT ![s] = sp[t]]
    /\ UNCHANGED wp

\* SharedPtr::operator=(SharedPtr&&): new_ptr(std::move(other)) empties the
\* source, swap(new_ptr) exchanges this->cb with it, ~new_ptr releases what
\* this held (nothing, when the source is *this).
MoveAssign(s, t) ==
    /\ sp[s] # NoPtr
    /\ sp[t] # NoPtr
    /\ LET new_ptr == sp[t]
           sp1     == [sp EXCEPT ![t] = Null]
           sp2     == [sp1 EXCEPT ![s] = new_ptr]
       IN  /\ \E M \in SharedDtorOutcomes(Cur, sp1[s]) :
                 Commit(Op(M, IF s = t THEN "self = move" ELSE "= move", sp[s], sp[t]))
           /\ sp' = sp2
    /\ UNCHANGED wp

\* (mutant) swap overwrites this->cb with other.cb and keeps other as it is.
Swap_Overwrites(s, t) ==
    /\ sp[s] # NoPtr
    /\ sp[t] # NoPtr
    /\ Commit(Op(Cur, "swap", sp[s], sp[t]))
    /\ sp' = [sp EXCEPT ![s] = sp[t]]
    /\ UNCHANGED wp

\* SharedPtr::swap.
Swap(s, t) ==
    /\ sp[s] # NoPtr
    /\ sp[t] # NoPtr
    /\ Commit(Op(Cur, "swap", sp[s], sp[t]))
    /\ sp' = [sp EXCEPT ![s] = sp[t], ![t] = sp[s]]
    /\ UNCHANGED wp

\* (mutant) reset() sets cb to nullptr and releases nothing.
Reset_NoRelease(s) ==
    /\ sp[s] # NoPtr
    /\ Commit(Op(Cur, "reset", sp[s], Null))
    /\ sp' = [sp EXCEPT ![s] = Null]
    /\ UNCHANGED wp

\* SharedPtr::reset(): *this = SharedPtr().
Reset(s) ==
    /\ sp[s] # NoPtr
    /\ \E M \in SharedDtorOutcomes(Cur, sp[s]) : Commit(Op(M, "reset", sp[s], Null))
    /\ sp' = [sp EXCEPT ![s] = Null]
    /\ UNCHANGED wp

\* SharedPtr::reset(Y* ptr): *this = SharedPtr<T>(ptr), the deleter and the
\* allocator being the default arguments.  The new block is created first,
\* then the old reference is released.
ResetPtr(s) ==
    /\ sp[s] # NoPtr
    /\ HasFree
    /\ \E p \in RawPtrs(NextBlock) :
         \E M \in SharedDtorOutcomes(RawCtor(Cur, NextBlock, p, DefaultAlloc), sp[s]) :
            Commit(Op(M, "reset(ptr)", sp[s], p))
    /\ sp' = [sp EXCEPT ![s] = NextBlock]
    /\ UNCHANGED wp

\* SharedPtr::get / operator* / operator-> on a non-empty pointer: one call
\* of the block's get().
BlockGetCall(M, b) == Log(M, "get", b, BlockGet(M.blk, b))

Get(s) ==
    /\ sp[s] \in Blocks
    /\ Commit(Op(BlockGetCall(Cur, sp[s]), "get", sp[s], Null))
    /\ UNCHANGED <<sp, wp>>

\* --------------------------------------------------------------- WeakPtr

\* (mutant) lock() does not test expired().
lock_NoExpiredCheck(M, cb) == [m |-> SharedCtor(M, cb), cb |-> cb]

\* (mutant) lock() hands out the block without counting the new owner.
lock_NoIncrement(M, cb) ==
    IF ~expired(M.blk, cb) THEN [m |-> M, cb |-> cb] ELSE [m |-> M, cb |-> Null]

\* (mutant) lock() goes by weak_count instead of shared_count.
lock_ByWeakCount(M, cb) ==
    IF cb # Null /\ M.blk[cb].weak_count # 0
    THEN [m |-> SharedCtor(M, cb), cb |-> cb]
    ELSE [m |-> M, cb |-> Null]

\* (mutant) lock() reads the count without testing cb: on an empty WeakPtr it
\* takes what it reads for a live count and hands out the first block.
lock_NoNullTest(M, cb) ==
    IF cb = Null
    THEN [m |-> M, cb |-> CHOOSE b \in Blocks : \A c \in Blocks : b <= c]
    ELSE IF M.blk[cb].shared_count # 0
         THEN [m |-> SharedCtor(M, cb), cb |-> cb]
         ELSE [m |-> M, cb |-> Null]

\* WeakPtr::lock: the block the returned SharedPtr references, and the state.
lock(M, cb) ==
    IF ~expired(M.blk, cb)
    THEN [m |-> SharedCtor(M, cb), cb |-> cb]
    ELSE [m |-> M, cb |-> Null]

\* SharedPtr<T> s = w.lock();
Lock(s, w) ==
    /\ NewShared(s)
    /\ wp[w] # NoPtr
    /\ LET r == lock(Cur, wp[w])
       IN  /\ Commit([r.m EXCEPT !.calls = <<Event("lock", wp[w], blocks, r.cb)>> \o @])
           /\ sp' = [sp EXCEPT ![s] = r.cb]
    /\ UNCHANGED wp

\* The WeakPtr objects an operation can name as its source: a variable w of
\* the client (<<"w", w>>), or the member `self` of the object a non-empty
\* SharedPtr s manages, reached as s->self (<<"self", s>>).
WeakSources ==
    {<<"w", v>> : v \in {x \in Weaks : wp[x] # NoPtr}}
      \cup {<<"self", s>> : s \in {x \in Shareds : sp[x] \in Blocks /\ blocks[sp[x]].obj}}

SrcCb(src) == IF src[1] = "w" THEN wp[src[2]] ELSE blocks[sp[src[2]]].self

\* Naming s->self calls operator->, that is get().
Reach(M, src) == IF src[1] = "w" THEN M ELSE BlockGetCall(M, sp[src[2]])

\* WeakPtr() = default.
WeakDefaultCtor(w) ==
    /\ NewWeak(w)
    /\ wp' = [wp EXCEPT ![w] = Null]
    /\ Commit(Op(Cur, "WeakPtr()", Null, Null))
    /\ UNCHANGED sp

\* WeakPtr(const SharedPtr<Y>&).
WeakFromShared(w, s) ==
    /\ NewWeak(w)
    /\ sp[s] # NoPtr
    /\ Commit(Op(WeakCtor(Cur, sp[s]), "WeakPtr(shared)", Null, sp[s]))
    /\ wp' = [wp EXCEPT ![w] = sp[s]]
    /\ UNCHANGED sp

\* WeakPtr(const WeakPtr&).
WeakCopyCtor(w, src) ==
    /\ NewWeak(w)
    /\ Commit(Op(WeakCtor(Reach(Cur, src), SrcCb(src)), "WeakPtr(copy)", Null, SrcCb(src)))
    /\ wp' = [wp EXCEPT ![w] = SrcCb(src)]
    /\ UNCHANGED sp

\* WeakPtr(WeakPtr&&): the source is left empty.
WeakMoveCtor(w, src) ==
    /\ NewWeak(w)
    /\ IF src[1] = "w"
       THEN /\ Commit(Op(Cur, "WeakPtr(move)", Null, SrcCb(src)))
            /\ wp' = [wp EXCEPT ![w] = SrcCb(src), ![src[2]] = Null]
       ELSE /\ Commit(Op([Reach(Cur, src) EXCEPT !.blk[sp[src[2]]].self = Null],
                         "WeakPtr(move)", Null, SrcCb(src)))
            /\ wp' = [wp EXCEPT ![w] = SrcCb(src)]
    /\ UNCHANGED sp

\* WeakPtr::operator=(const WeakPtr&) and operator=(const SharedPtr<T>&):
\* tmp(other); swap(tmp); ~tmp.  `self` is this->cb before the call.
WeakCopyAssignOp(M, self, other) == WeakDtor(WeakCtor(M, other), self)

WeakCopyAssign(w, src) ==
    /\ wp[w] # NoPtr
    /\ Commit(Op(WeakCopyAssignOp(Reach(Cur, src), wp[w], SrcCb(src)),
                 IF src = <<"w", w>> THEN "weak self =" ELSE "weak =", wp[w], SrcCb(src)))
    /\ wp' = [wp EXCEPT ![w] = SrcCb(src)]
    /\ UNCHANGED sp

\* WeakPtr::operator=(WeakPtr&&): `WeakPtr new_ptr = other_weak_ptr;` names
\* an lvalue, so new_ptr is a copy: the source keeps its reference and the
\* count of its block goes up by one.
WeakMoveAssignOp(M, self, other) == WeakDtor(WeakCtor(M, other), self)

WeakMoveAssign(w, src) ==
    /\ wp[w] # NoPtr
    /\ Commit(Op(WeakMoveAssignOp(Reach(Cur, src), wp[w], SrcCb(src)),
                 IF src = <<"w", w>> THEN "weak self = move" ELSE "weak = move",
                 wp[w], SrcCb(src)))
    /\ wp' = [wp EXCEPT ![w] = SrcCb(src)]
    /\ UNCHANGED sp

\* WeakPtr::operator=(const SharedPtr<T>&) on a variable.
WeakAssignShared(w, s) ==
    /\ wp[w] # NoPtr
    /\ sp[s] # NoPtr
    /\ Commit(Op(WeakCopyAssignOp(Cur, wp[w], sp[s]), "weak = shared", wp[w], sp[s]))
    /\ wp' = [wp EXCEPT ![w] = sp[s]]
    /\ UNCHANGED sp

\* ~WeakPtr on a variable of the client.
WeakDtorVar(w) ==
    /\ wp[w] # NoPtr
    /\ Commit(Op(WeakDtor(Cur, wp[w]), "~WeakPtr", wp[w], Null))
    /\ wp' = [wp EXCEPT ![w] = NoPtr]
    /\ UNCHANGED sp

\* s->self = t: operator-> (one get()), then WeakPtr::operator=(const
\* SharedPtr<T>&) on the member of the managed object.
MemberAssign(s, t) ==
    /\ sp[s] \in Blocks
    /\ blocks[sp[s]].obj
    /\ sp[t] # NoPtr
    /\ LET b  == sp[s]
           M1 == WeakCopyAssignOp(BlockGetCall(Cur, b), blocks[b].self, sp[t])
       IN  Commit(Op([M1 EXCEPT !.blk[b].self = sp[t]], "member = shared",
                     blocks[b].self, sp[t]))
    /\ UNCHANGED <<sp, wp>>

Next ==
    \/ \E s \in Shareds : DefaultCtor(s)
    \/ \E s \in Shareds, alloc \in MakeSharedAllocators, throws \in BOOLEAN :
          allocateShared(s, alloc, throws)
    \/ \E s \in Shareds : SharedFromRaw(s)
    \/ \E s, t \in Shareds : CopyCtor(s, t)
    \/ \E s, t \in Shareds : MoveCtor(s, t)
    \/ \E s, t \in Shareds : CopyAssign(s, t)
    \/ \E s, t \in Shareds : MoveAssign(s, t)
    \/ \E s, t \in Shareds : Swap(s, t)
    \/ \E s \in Shareds : Reset(s)
    \/ \E s \in Shareds : ResetPtr(s)
    \/ \E s \in Shareds : Get(s)
    \/ \E s \in Shareds : Dtor(s)
    \/ \E s \in Shareds, w \in Weaks : Lock(s, w)
    \/ \E w \in Weaks : WeakDefaultCtor(w)
    \/ \E w \in Weaks, s \in Shareds : WeakFromShared(w, s)
    \/ \E w \in Weaks, src \in WeakSources : WeakCopyCtor(w, src)
    \/ \E w \in Weaks, src \in WeakSources : WeakMoveCtor(w, src)
    \/ \E w \in Weaks, src \in WeakSources : WeakCopyAssign(w, src)
    \/ \E w \in Weaks, src \in WeakSources : WeakMoveAssign(w, src)
    \/ \E w \in Weaks, s \in Shareds : WeakAssignShared(w, s)
    \/ \E w \in Weaks : WeakDtorVar(w)
    \/ \E s, t \in Shareds : MemberAssign(s, t)

Spec == Init /\ [][Next]_vars

\* The same program on a heap with room for HeapBlocks control blocks, in a
\* traced run.
InitFullHeap ==
    /\ blocks = [b \in Blocks |-> UnusedBlock]
    /\ sp = [s \in Shareds |-> NoPtr]
    /\ wp = [w \in Weaks |-> NoPtr]
    /\ calls = <<>>
    /\ destroy_calls = [b \in Blocks |-> 0]
    /\ deallocate_calls = [b \in Blocks |-> 0]
    /\ deleter_args = [b \in Blocks |-> <<>>]
    /\ tracing = TRUE

SpecFullHeap == InitFullHeap /\ [][Next]_vars

\* ------------------------------------------------------------ properties

\* A control block: constructed and not deallocated.
IsBlock(b) == blocks[b].st = "live"

\* A block that was constructed at some time (deallocated since, or not).
WasConstructed(b) == blocks[b].st \in {"live", "freed"}

\* The live SharedPtr variables that reference block b.
SharedRefs(b) == {s \in Shareds : sp[s] = b}

\* The live WeakPtr objects that reference block b: variables of the client,
\* and the members `self` of the managed objects that are alive.
WeakVarRefs(b)    == {w \in Weaks : wp[w] = b}
WeakMemberRefs(b) == {c \in Blocks : blocks[c].obj /\ blocks[c].self = b}
WeakRefCount(b)   == Cardinality(WeakVarRefs(b)) + Cardinality(WeakMemberRefs(b))

\* The calls the last operation made of operation e on block b.
CallsOf(e, b) == {i \in DOMAIN calls : calls[i].e = e /\ calls[i].b = b}

\* C1: for every control block that has not been deallocated, shared_count
\* (hence use_count() of every SharedPtr referencing it) equals the number of
\* live SharedPtr referencing the block; use_count() of an empty SharedPtr
\* is 0.
C1_UseCountIsLiveOwners ==
    /\ \A b \in Blocks :
          IsBlock(b) => blocks[b].shared_count = Cardinality(SharedRefs(b))
    /\ \A s \in Shareds :
          sp[s] # NoPtr =>
            use_count(blocks, sp[s]) =
               IF sp[s] = Null THEN 0 ELSE Cardinality(SharedRefs(sp[s]))

\* C1 witness: every SharedPtr variable of the client references one block,
\* whose count is their number.
C1_Witness ==
    \E b \in Blocks :
       /\ IsBlock(b)
       /\ Cardinality(SharedRefs(b)) = NumShared
       /\ blocks[b].shared_count = NumShared

\* C2: destroy() is called on a block at most once, and exactly by the
\* ~SharedPtr that takes shared_count from 1 to 0: a block whose count is not
\* 0 has had no destroy(), a block whose count is 0 (or that is deallocated)
\* has had exactly one, and the call was made on a count of 0, once, by the
\* operation that left no SharedPtr on the block.
C2_DestroyExactlyOnce ==
    \A b \in Blocks :
       /\ destroy_calls[b] <= 1
       /\ IsBlock(b) => (destroy_calls[b] = 1 <=> blocks[b].shared_count = 0)
       /\ IsBlock(b) => (destroy_calls[b] = 1 <=> SharedRefs(b) = {})
       /\ blocks[b].st = "freed" => destroy_calls[b] = 1
       /\ ~WasConstructed(b) => destroy_calls[b] = 0
       /\ Cardinality(CallsOf("destroy", b)) <= 1
       /\ \A i \in CallsOf("destroy", b) :
             calls[i].sc = 0 /\ SharedRefs(b) = {} /\ destroy_calls[b] = 1

\* C2 witness: the last operation destroyed the last owner of a block and
\* called destroy() once, on a count of 0.
C2_Witness ==
    \E b \in Blocks :
       /\ destroy_calls[b] = 1
       /\ CallsOf("destroy", b) # {}
       /\ SharedRefs(b) = {}

\* C3 (as claimed): deallocate() is called on a block at most once, with both
\* counts zero when it is called and destroy() already called; no block is
\* deallocated twice, and none that a live pointer references.
C3_DeallocateOnce ==
    \A b \in Blocks :
       /\ deallocate_calls[b] <= 1
       /\ \A i \in CallsOf("deallocate", b) : calls[i].sc = 0 /\ calls[i].wc = 0
       /\ deallocate_calls[b] >= 1 =>
             /\ destroy_calls[b] = 1
             /\ SharedRefs(b) = {}
             /\ WeakRefCount(b) = 0

\* What holds of every WeakPtr variable whose block has had its object
\* destroyed: the block is still allocated, expired() is true, and lock()
\* returns an empty SharedPtr and changes nothing.
ExpiredIsInert ==
    \A w \in Weaks :
       (wp[w] \in Blocks /\ destroy_calls[wp[w]] >= 1) =>
          /\ IsBlock(wp[w])
          /\ blocks[wp[w]].shared_count = 0
          /\ expired(blocks, wp[w])
          /\ lock(Cur, wp[w]).cb = Null
          /\ lock(Cur, wp[w]).m = Cur

\* The step is a call of lock() (lock() is logged first in `calls`).
IsLockStep == calls' # <<>> /\ calls'[1].e = "lock"

\* A lock() on a WeakPtr whose block has had its object destroyed returns an
\* empty SharedPtr, leaves every count as it is and calls neither get() nor
\* destroy() nor deallocate().
ExpiredLockStep ==
    IsLockStep =>
       \A s \in Shareds, w \in Weaks :
          (wp[w] \in Blocks /\ destroy_calls[wp[w]] >= 1 /\ Lock(s, w)) =>
             /\ sp'[s] = Null
             /\ blocks' = blocks
             /\ \A i \in DOMAIN calls' : calls'[i].e = "lock"
             /\ destroy_calls' = destroy_calls
             /\ deallocate_calls' = deallocate_calls

\* The step destroys the object of block b (its last SharedPtr goes).
LastOwnerGoes(b) == destroy_calls'[b] # destroy_calls[b] /\ IsBlock(b)

\* The object is destroyed and the block kept.
ObjectGoneBlockKept(b) ==
    /\ blocks'[b].st = "live"
    /\ ~blocks'[b].obj
    /\ blocks'[b].shared_count = 0
    /\ destroy_calls'[b] = 1
    /\ deallocate_calls'[b] = 0

\* C4 (as claimed): if a WeakPtr references the block when its last SharedPtr
\* is destroyed, the object is destroyed and the block is not deallocated;
\* from then on expired() is true and lock() is empty and inert.
C4_AsClaimed ==
    [][/\ \A b \in Blocks :
            (LastOwnerGoes(b) /\ WeakRefCount(b) >= 1) => ObjectGoneBlockKept(b)
       /\ ExpiredIsInert'
       /\ ExpiredLockStep]_vars

\* C4 (amended): if a WeakPtr still references the block once its last
\* SharedPtr has been destroyed (a WeakPtr the destroyed object did not own),
\* the object is destroyed and the block is not deallocated; from then on
\* expired() is true and lock() is empty and inert.
C4_WeakOutlivesObject ==
    [][/\ \A b \in Blocks :
            (LastOwnerGoes(b) /\ WeakRefCount(b)' >= 1) => ObjectGoneBlockKept(b)
       /\ ExpiredIsInert'
       /\ ExpiredLockStep]_vars

\* C4 witness: the last operation was a lock() on a WeakPtr variable whose
\* block is allocated with its object destroyed, and it returned empty.
C4_Witness ==
    /\ Len(calls) = 1
    /\ calls[1].e = "lock"
    /\ calls[1].b \in Blocks
    /\ calls[1].arg = Null
    /\ IsBlock(calls[1].b)
    /\ destroy_calls[calls[1].b] = 1
    /\ WeakVarRefs(calls[1].b) # {}

\* C5 (as claimed): no operation completes leaving an allocated block with
\* both counts zero; once every SharedPtr and WeakPtr is destroyed, every
\* block that was created has been destroyed once and deallocated once.
C5_NoLeakNoDoubleFree ==
    /\ \A b \in Blocks :
          IsBlock(b) => blocks[b].shared_count + blocks[b].weak_count > 0
    /\ ((\A s \in Shareds : sp[s] = NoPtr) /\ (\A w \in Weaks : wp[w] = NoPtr)) =>
          \A b \in Blocks :
             WasConstructed(b) => destroy_calls[b] = 1 /\ deallocate_calls[b] = 1

\* The operations of SharedPtr (with lock(), which produces one), and those
\* of WeakPtr: construction, copy, move, assignment, destruction.
SharedPtrStep ==
    \/ \E s \in Shareds : DefaultCtor(s) \/ SharedFromRaw(s) \/ Reset(s) \/ ResetPtr(s)
                              \/ Get(s) \/ Dtor(s)
    \/ \E s \in Shareds, alloc \in MakeSharedAllocators, throws \in BOOLEAN :
          allocateShared(s, alloc, throws)
    \/ \E s, t \in Shareds : CopyCtor(s, t) \/ MoveCtor(s, t) \/ CopyAssign(s, t)
                                 \/ MoveAssign(s, t) \/ Swap(s, t)
    \/ \E s \in Shareds, w \in Weaks : Lock(s, w)

WeakPtrStep ==
    \/ \E w \in Weaks : WeakDefaultCtor(w) \/ WeakDtorVar(w)
    \/ \E w \in Weaks, s \in Shareds : WeakFromShared(w, s) \/ WeakAssignShared(w, s)
    \/ \E w \in Weaks, src \in WeakSources :
          WeakCopyCtor(w, src) \/ WeakMoveCtor(w, src) \/ WeakCopyAssign(w, src)
            \/ WeakMoveAssign(w, src)
    \/ \E s, t \in Shareds : MemberAssign(s, t)

\* weak_count of every allocated block is the number of live WeakPtr that
\* reference it.
WeakCountIsLiveObservers ==
    \A b \in Blocks : IsBlock(b) => blocks[b].weak_count = WeakRefCount(b)

\* The blocks, allocated before and after the step, whose shared_count
\* (weak_count) the step changes.
SharedCountChanged ==
    {b \in Blocks : blocks'[b].shared_count # blocks[b].shared_count
                      /\ IsBlock(b) /\ IsBlock(b)'}
WeakCountChanged ==
    {b \in Blocks : blocks'[b].weak_count # blocks[b].weak_count
                      /\ IsBlock(b) /\ IsBlock(b)'}

\* The WeakPtr members referencing b whose owning object the step destroys.
MembersDestroyed(b) ==
    {c \in WeakMemberRefs(b) : destroy_calls'[c] # destroy_calls[c]}

\* The step assigns no WeakPtr: the WeakPtr variables are as they were, and
\* so is the WeakPtr member of every object alive before and after.
WeakPtrsKept ==
    /\ wp' = wp
    /\ \A b \in Blocks :
          (blocks[b].obj /\ blocks'[b].obj) => blocks'[b].self = blocks[b].self

\* Every SharedPtr operation is such a step, and every WeakPtr operation
\* leaves the SharedPtr variables as they were.
StepsKeepOtherPointers ==
    [][/\ SharedPtrStep => WeakPtrsKept
       /\ WeakPtrStep => sp' = sp]_vars

\* No WeakPtr operation changes a shared_count.
WeakKeepsShared == SharedCountChanged # {} => ~(sp' = sp /\ WeakPtrStep)

\* C6 (as claimed): weak_count of an allocated block is the number of live
\* WeakPtr referencing it; no SharedPtr operation (lock() included) changes a
\* weak_count; no WeakPtr construction, copy, assignment or destruction
\* changes a shared_count.
C6_AsClaimed ==
    [][/\ WeakCountIsLiveObservers'
       /\ WeakCountChanged # {} => ~(WeakPtrsKept /\ SharedPtrStep)
       /\ WeakKeepsShared]_vars

\* C6 (amended): as claimed, except that a SharedPtr operation which destroys
\* a managed object runs ~WeakPtr on the WeakPtr members of that object, each
\* taking one off the weak_count of the block it references; no SharedPtr
\* operation changes a weak_count in any other way, and lock() changes none.
C6_WeakCountIsLiveObservers ==
    [][/\ WeakCountIsLiveObservers'
       /\ (\E b \in WeakCountChanged :
              blocks'[b].weak_count
                 # blocks[b].weak_count - Cardinality(MembersDestroyed(b)))
             => ~(WeakPtrsKept /\ SharedPtrStep)
       /\ IsLockStep => \A b \in Blocks : blocks'[b].weak_count = blocks[b].weak_count
       /\ WeakKeepsShared]_vars

\* C6 witness: a WeakPtr variable and a WeakPtr member both reference a block,
\* whose weak_count is 2.
C6_Witness ==
    \E b \in Blocks :
       /\ IsBlock(b)
       /\ WeakVarRefs(b) # {}
       /\ WeakMemberRefs(b) # {}
       /\ blocks[b].weak_count = 2

\* C7: lock() on a WeakPtr whose block has shared_count >= 1 returns a
\* non-empty SharedPtr on the same block (get() gives the address the other
\* owners give), adds exactly one to shared_count and leaves weak_count.
C7_LockShares ==
    [][IsLockStep => \A s \in Shareds, w \in Weaks :
          (wp[w] \in Blocks /\ blocks[wp[w]].shared_count >= 1 /\ Lock(s, w)) =>
             /\ sp'[s] # Null
             /\ sp'[s] = wp[w]
             /\ \A t \in SharedRefs(wp[w]) : get(blocks', sp'[s]) = get(blocks, sp[t])
             /\ blocks'[wp[w]].shared_count = blocks[wp[w]].shared_count + 1
             /\ blocks'[wp[w]].weak_count = blocks[wp[w]].weak_count
             /\ blocks' = [blocks EXCEPT ![wp[w]].shared_count = @ + 1]]_vars

\* C7 witness: the last operation was a lock() on a block with an owner, and
\* the block now counts one more.
C7_Witness ==
    /\ Len(calls) = 1
    /\ calls[1].e = "lock"
    /\ calls[1].b \in Blocks
    /\ calls[1].sc >= 1
    /\ calls[1].arg = calls[1].b
    /\ blocks[calls[1].b].shared_count = calls[1].sc + 1

\* C8: a live SharedPtr references only a block that is allocated and whose
\* object has not been destroyed.
C8_OwnerKeepsObjectAlive ==
    \A s \in Shareds :
       sp[s] \in Blocks =>
          /\ IsBlock(sp[s])
          /\ destroy_calls[sp[s]] = 0
          /\ deallocate_calls[sp[s]] = 0
          /\ get(blocks, sp[s]) # Null => blocks[sp[s]].obj

\* C8 witness: a SharedPtr produced by lock() references a block whose object
\* is alive, beside the WeakPtr it came from.
C8_Witness ==
    \E s \in Shareds :
       /\ sp[s] \in Blocks
       /\ blocks[sp[s]].obj
       /\ WeakVarRefs(sp[s]) # {}
       /\ calls # <<>>
       /\ calls[1].e = "lock"
       /\ calls[1].arg = sp[s]

\* C9: for a block made from a non-null raw pointer p, the deleter has not
\* been called while a SharedPtr references the block, and has been called
\* exactly once, with p, once none does.
C9_DeleterOnceWithP ==
    \A b \in Blocks :
       (WasConstructed(b) /\ blocks[b].kind = "external" /\ blocks[b].ptr # Null) =>
          /\ SharedRefs(b) # {} => deleter_args[b] = <<>>
          /\ SharedRefs(b) = {} => deleter_args[b] = <<RawAddr(b)>>

\* C9 witness: the deleter has been called once, with p, on a block that a
\* WeakPtr still references after its owners went.
C9_Witness ==
    \E b \in Blocks :
       /\ IsBlock(b)
       /\ blocks[b].kind = "external"
       /\ deleter_args[b] = <<RawAddr(b)>>
       /\ WeakVarRefs(b) # {}
       /\ SharedRefs(b) = {}

\* C10 (as claimed): a failed allocateShared / makeShared leaves no memory
\* that was allocated for a block and not released.
C10_NoLeakOnThrow ==
    \A b \in Blocks : blocks[b].st # "raw"

\* The first entry of the log of a traced run: the operation that was called.
LastOp == IF calls = <<>> THEN Event("none", Null, blocks, Null) ELSE calls[1]

\* The step can be a call of operation e: in a traced run its log opens with e.
Called(e) == tracing => (calls' # <<>> /\ calls'[1].e = e)

\* Apart from the log, the step leaves the blocks and the call counters as
\* they were.
NoBlockTouched ==
    /\ blocks' = blocks
    /\ destroy_calls' = destroy_calls
    /\ deallocate_calls' = deallocate_calls
    /\ deleter_args' = deleter_args

\* The step leaves the blocks and the call counters as ~SharedPtr leaves them
\* when run from M on a SharedPtr that references cb (as M has them, when cb
\* is Null).
ReleasedAfter(M, cb) ==
    \E M1 \in SharedDtorOutcomes(M, cb) :
       /\ blocks' = M1.blk
       /\ destroy_calls' = M1.ndestroy
       /\ deallocate_calls' = M1.ndealloc
       /\ deleter_args' = M1.deleted

\* The step has on the blocks and the call counters the effect ~SharedPtr has
\* on a SharedPtr that references cb (none when cb is Null).
ReleasedAsDtor(cb) == ReleasedAfter(Cur, cb)

\* The step changes no SharedPtr variable but those in S, and no WeakPtr one.
OnlyShared(S) == wp' = wp /\ \A u \in Shareds \ S : sp'[u] = sp[u]

\* C11: moving from a non-empty SharedPtr t makes the target s reference the
\* block t referenced and leaves t empty (use_count() 0, get() null).  The
\* move constructor touches no block.  Move assignment touches the blocks as
\* ~SharedPtr of the target's previous reference does, and not otherwise (no
\* block at all when the target was empty; the shared_count of the source's
\* block stays when the target referenced another block).  Self move
\* assignment leaves the pointer and every block as they were.
C11_MoveTransfers ==
    [][\A s, t \in Shareds :
          /\ (sp[t] \in Blocks /\ Called("SharedPtr(move)") /\ MoveCtor(s, t)) =>
                /\ sp'[s] = sp[t]
                /\ sp'[t] = Null
                /\ use_count(blocks', sp'[t]) = 0
                /\ get(blocks', sp'[t]) = Null
                /\ NoBlockTouched
                /\ OnlyShared({s, t})
          /\ (sp[t] \in Blocks /\ s # t /\ Called("= move") /\ MoveAssign(s, t)) =>
                /\ sp'[s] = sp[t]
                /\ sp'[t] = Null
                /\ use_count(blocks', sp'[t]) = 0
                /\ get(blocks', sp'[t]) = Null
                /\ ReleasedAsDtor(sp[s])
                /\ sp[s] = Null => NoBlockTouched
                /\ sp[s] # sp[t] =>
                      blocks'[sp[t]].shared_count = blocks[sp[t]].shared_count
                /\ (sp[s] # sp[t] /\ destroy_calls' = destroy_calls) =>
                      blocks'[sp[t]].weak_count = blocks[sp[t]].weak_count
                /\ OnlyShared({s, t})
          /\ (sp[s] # NoPtr /\ s = t /\ Called("self = move") /\ MoveAssign(s, t)) =>
                /\ sp' = sp
                /\ NoBlockTouched
                /\ OnlyShared({})]_vars

\* C11 witness: the last operation move-assigned a SharedPtr that referenced
\* one block from a SharedPtr that referenced another: the target's previous
\* block has had its object destroyed, the source's block has its one owner
\* and the count it had, and a SharedPtr is empty.
C11_Witness ==
    /\ LastOp.e = "= move"
    /\ LastOp.b \in Blocks
    /\ LastOp.arg \in Blocks
    /\ LastOp.b # LastOp.arg
    /\ destroy_calls[LastOp.b] = 1
    /\ SharedRefs(LastOp.b) = {}
    /\ Cardinality(SharedRefs(LastOp.arg)) = 1
    /\ blocks[LastOp.arg].shared_count = 1
    /\ \E t \in Shareds : sp[t] = Null

\* The machine with one more owner counted on block cb.
OneMoreOwner(cb) == [Cur EXCEPT !.blk[cb].shared_count = @ + 1]

\* C12: copy construction from a non-empty SharedPtr t adds exactly one to
\* the shared_count of t's block and touches nothing else, and the new
\* pointer references that block.  Copy assignment to a target that
\* references another block or none does the same and then touches the blocks
\* as ~SharedPtr of the target's previous reference does (not at all when the
\* target was empty).  A copy of an empty SharedPtr is empty and counts
\* nothing; assigned, it still releases what the target held.
C12_CopyShares ==
    [][\A s, t \in Shareds :
          /\ (sp[t] \in Blocks /\ Called("SharedPtr(copy)") /\ CopyCtor(s, t)) =>
                /\ sp'[s] = sp[t]
                /\ sp'[t] = sp[t]
                /\ blocks' = [blocks EXCEPT ![sp[t]].shared_count = @ + 1]
                /\ destroy_calls' = destroy_calls
                /\ deallocate_calls' = deallocate_calls
                /\ deleter_args' = deleter_args
                /\ OnlyShared({s})
          /\ (sp[t] \in Blocks /\ sp[s] # sp[t] /\ Called("=") /\ CopyAssign(s, t)) =>
                /\ sp'[s] = sp[t]
                /\ sp'[t] = sp[t]
                /\ blocks'[sp[t]].shared_count = blocks[sp[t]].shared_count + 1
                /\ blocks'[sp[t]].st = "live"
                /\ ReleasedAfter(OneMoreOwner(sp[t]), sp[s])
                /\ sp[s] = Null =>
                      /\ blocks' = [blocks EXCEPT ![sp[t]].shared_count = @ + 1]
                      /\ destroy_calls' = destroy_calls
                      /\ deallocate_calls' = deallocate_calls
                /\ sp[s] # Null =>
                      \/ blocks'[sp[s]].shared_count = blocks[sp[s]].shared_count - 1
                      \/ blocks'[sp[s]].st = "freed"
                /\ OnlyShared({s})
          /\ (sp[t] = Null /\ Called("SharedPtr(copy)") /\ CopyCtor(s, t)) =>
                /\ sp'[s] = Null
                /\ NoBlockTouched
                /\ OnlyShared({s})
          /\ (sp[t] = Null /\ s # t /\ Called("=") /\ CopyAssign(s, t)) =>
                /\ sp'[s] = Null
                /\ ReleasedAsDtor(sp[s])
                /\ sp[s] = Null => NoBlockTouched
                /\ OnlyShared({s})]_vars

\* C12 witness: the last operation copy-assigned a SharedPtr that referenced
\* one block from a SharedPtr that referenced another: the source's block
\* counts both pointers, the target's previous block has had its object
\* destroyed.
C12_Witness ==
    /\ LastOp.e = "="
    /\ LastOp.b \in Blocks
    /\ LastOp.arg \in Blocks
    /\ LastOp.b # LastOp.arg
    /\ Cardinality(SharedRefs(LastOp.arg)) = 2
    /\ blocks[LastOp.arg].shared_count = 2
    /\ SharedRefs(LastOp.b) = {}
    /\ destroy_calls[LastOp.b] = 1

\* The step leaves every block but nb, and the call counters, as ~SharedPtr
\* leaves them on a SharedPtr that references cb.
ReleasedAsDtorBeside(nb, cb) ==
    \E M \in SharedDtorOutcomes(Cur, cb) :
       /\ \A c \in Blocks \ {nb} : blocks'[c] = M.blk[c]
       /\ destroy_calls' = M.ndestroy
       /\ deallocate_calls' = M.ndealloc
       /\ deleter_args' = M.deleted

\* C13: reset() leaves the SharedPtr empty and touches the blocks as one
\* ~SharedPtr of its reference does: shared_count one less; destroy() when it
\* reaches zero; deallocate() when weak_count is zero too; nothing at all on
\* an empty pointer.  reset(p) does the same to the previous block and leaves
\* the pointer on a block that was not allocated before, of the external
\* kind, holding p, with shared_count 1 and weak_count 0.
C13_ResetReleases ==
    [][\A s \in Shareds :
          /\ (sp[s] \in Blocks /\ Called("reset") /\ Reset(s)) =>
                LET b == sp[s] IN
                /\ sp'[s] = Null
                /\ ReleasedAsDtor(b)
                /\ blocks[b].shared_count > 1 =>
                      /\ blocks' = [blocks EXCEPT ![b].shared_count = @ - 1]
                      /\ destroy_calls' = destroy_calls
                      /\ deallocate_calls' = deallocate_calls
                /\ blocks[b].shared_count = 1 =>
                      destroy_calls' = [destroy_calls EXCEPT ![b] = @ + 1]
                /\ (blocks[b].shared_count = 1 /\ blocks[b].weak_count = 0) =>
                      /\ blocks'[b].st = "freed"
                      /\ deallocate_calls'[b] = deallocate_calls[b] + 1
                /\ (blocks[b].shared_count = 1 /\ WeakVarRefs(b) # {}) =>
                      /\ blocks'[b].st = "live"
                      /\ blocks'[b].shared_count = 0
                      /\ deallocate_calls'[b] = deallocate_calls[b]
                /\ OnlyShared({s})
          /\ (sp[s] = Null /\ Called("reset") /\ Reset(s)) =>
                /\ sp' = sp
                /\ NoBlockTouched
                /\ OnlyShared({})
          /\ (sp[s] # NoPtr /\ Called("reset(ptr)") /\ ResetPtr(s)) =>
                LET nb == sp'[s] IN
                /\ nb \in Blocks
                /\ blocks[nb].st = "unused"
                /\ blocks'[nb].st = "live"
                /\ blocks'[nb].kind = "external"
                /\ blocks'[nb].ptr \in RawPtrs(nb)
                /\ tracing => blocks'[nb].ptr = calls'[1].arg
                /\ blocks'[nb].shared_count = 1
                /\ blocks'[nb].weak_count = 0
                /\ ReleasedAsDtorBeside(nb, sp[s])
                /\ OnlyShared({s})]_vars

\* C13 witness: the last operation was reset(p) on a SharedPtr that was the
\* one owner of a block: that block has had its object destroyed, and the
\* pointer is the one owner of a block the operation allocated, holding p.
C13_Witness ==
    /\ LastOp.e = "reset(ptr)"
    /\ LastOp.arg # Null
    /\ LastOp.b \in Blocks
    /\ LastOp.sc = 1
    /\ destroy_calls[LastOp.b] = 1
    /\ \E s \in Shareds :
          /\ sp[s] \in Blocks \ {LastOp.b}
          /\ CallsOf("allocate", sp[s]) # {}
          /\ blocks[sp[s]].kind = "external"
          /\ blocks[sp[s]].ptr = LastOp.arg
          /\ blocks[sp[s]].shared_count = 1
          /\ blocks[sp[s]].weak_count = 0

\* The pointers f with the values of s and t exchanged.
Exchanged(f, s, t) == [f EXCEPT ![s] = f[t], ![t] = f[s]]

\* C14: swap exchanges the blocks the two SharedPtr reference (either may be
\* empty), changes no count of any block and calls neither destroy() nor
\* deallocate() (it calls nothing on any block); exchanging the two pointers
\* once more gives back the pointers there were, on blocks that never
\* changed.
C14_SwapExchanges ==
    [][\A s, t \in Shareds :
          (sp[s] # NoPtr /\ sp[t] # NoPtr /\ Called("swap") /\ Swap(s, t)) =>
             /\ sp'[s] = sp[t]
             /\ sp'[t] = sp[s]
             /\ sp' = Exchanged(sp, s, t)
             /\ Exchanged(sp', s, t) = sp
             /\ NoBlockTouched
             /\ \A i \in DOMAIN calls' : calls'[i].e = "swap"
             /\ OnlyShared({s, t})]_vars

\* C14 witness: the last operation swapped two SharedPtr that referenced two
\* blocks: each now references the block the other did, and the counts are
\* those of before the call.
C14_Witness ==
    /\ LastOp.e = "swap"
    /\ LastOp.b \in Blocks
    /\ LastOp.arg \in Blocks
    /\ LastOp.b # LastOp.arg
    /\ Len(calls) = 1
    /\ blocks[LastOp.b].shared_count = LastOp.sc
    /\ blocks[LastOp.b].weak_count = LastOp.wc
    /\ \E s, t \in Shareds : s # t /\ sp[s] = LastOp.arg /\ sp[t] = LastOp.b

\* C15 (as claimed): when the last ~SharedPtr of a block called destroy() and
\* the object owned a WeakPtr to that block, whose destructor ran inside
\* destroy(), the block has been deallocated exactly once, and ~SharedPtr
\* neither read a count of the block nor called deallocate() once the block
\* was deallocated.
C15_ReentrantTeardownSafe ==
    \A b \in Blocks :
       (CallsOf("destroy", b) # {} /\ deallocate_calls[b] >= 1) =>
          /\ CallsOf("read_freed", b) = {}
          /\ Cardinality(CallsOf("deallocate", b)) <= 1
          /\ deallocate_calls[b] = 1

\* The block the WeakPtr named by src references after the step.
SrcCbAfter(src) ==
    IF src[1] = "w" THEN wp'[src[2]] ELSE blocks'[sp[src[2]]].self

\* C16 (as claimed): moving from a non-empty WeakPtr, by construction or by
\* assignment to another WeakPtr, makes the target reference the source's
\* block, leaves the source empty and leaves the weak_count of that block as
\* it was (the target of an assignment having referenced another block, or
\* none).
C16_WeakMoveTransfers ==
    [][\A w \in Weaks, src \in WeakSources :
          /\ (SrcCb(src) \in Blocks /\ Called("WeakPtr(move)") /\ WeakMoveCtor(w, src)) =>
                /\ wp'[w] = SrcCb(src)
                /\ SrcCbAfter(src) = Null
                /\ blocks'[SrcCb(src)].weak_count = blocks[SrcCb(src)].weak_count
          /\ (SrcCb(src) \in Blocks /\ src # <<"w", w>> /\ wp[w] # SrcCb(src)
                 /\ Called("weak = move") /\ WeakMoveAssign(w, src)) =>
                /\ wp'[w] = SrcCb(src)
                /\ SrcCbAfter(src) = Null
                /\ blocks'[SrcCb(src)].weak_count = blocks[SrcCb(src)].weak_count]_vars

\* The calls of destroy() and of deallocate() the step makes.
TeardownCalls ==
    {i \in DOMAIN calls' : calls'[i].e \in {"destroy", "deallocate", "deleter"}}

\* C17: copy-assigning a SharedPtr to itself, or to a SharedPtr that already
\* references the same block, leaves the pointers, both counts of the block
\* and every other block as they were and calls neither destroy() nor
\* deallocate(), whatever shared_count is (with a count of 1 the destructor
\* of the temporary finds 1 left, never 0).  Copy-assigning a WeakPtr to
\* itself likewise leaves weak_count and calls no deallocate().
C17_SelfAssignInert ==
    [][/\ \A s, t \in Shareds :
            (sp[s] \in Blocks /\ sp[s] = sp[t]
               /\ Called(IF s = t THEN "self =" ELSE "=") /\ CopyAssign(s, t)) =>
               /\ sp' = sp
               /\ wp' = wp
               /\ NoBlockTouched
               /\ TeardownCalls = {}
       /\ \A w \in Weaks :
            (wp[w] \in Blocks /\ Called("weak self =")
               /\ WeakCopyAssign(w, <<"w", w>>)) =>
               /\ sp' = sp
               /\ wp' = wp
               /\ NoBlockTouched
               /\ TeardownCalls = {}]_vars

\* C17 witness: the last operation copy-assigned to itself the one SharedPtr
\* of a block that no WeakPtr references: the block is as it was, its count
\* 1, and nothing was called on it.
C17_Witness ==
    /\ LastOp.e = "self ="
    /\ LastOp.b \in Blocks
    /\ LastOp.arg = LastOp.b
    /\ LastOp.sc = 1
    /\ LastOp.wc = 0
    /\ Len(calls) = 1
    /\ IsBlock(LastOp.b)
    /\ blocks[LastOp.b].shared_count = 1
    /\ blocks[LastOp.b].obj
    /\ destroy_calls[LastOp.b] = 0

\* C18 (as claimed): when the last operation constructed a SharedPtr from a
\* raw pointer with allocator a, the memory of the block was allocated by a
\* and the block records a as the allocator that is to release it; and every
\* deallocate() of a block of the external kind goes through the allocator
\* the block records.
C18_AllocatorRecorded ==
    /\ \A i \in DOMAIN calls :
          calls[i].e = "SharedPtr(ptr, deleter, alloc)" =>
             /\ CallsOf("allocate", calls[i].b) # {}
             /\ \A j \in CallsOf("allocate", calls[i].b) : calls[j].arg = calls[i].arg
             /\ blocks[calls[i].b].rebind_alloc = calls[i].arg
    /\ \A b \in Blocks :
          blocks[b].kind = "external" =>
             \A j \in CallsOf("deallocate", b) : calls[j].arg = blocks[b].rebind_alloc

\* A block made from a null raw pointer.
NullBlock(b) ==
    WasConstructed(b) /\ blocks[b].kind = "external" /\ blocks[b].ptr = Null

\* C19: for a block made from a null raw pointer the deleter is never called;
\* the block counts its owners like any other (one owner and no WeakPtr
\* right after the construction, use_count() the number of owners, get()
\* null); it stays allocated while a SharedPtr or a WeakPtr references it and
\* has been deallocated exactly once when none does.
C19_NullBlockNeverDeleted ==
    \A b \in Blocks :
       NullBlock(b) =>
          /\ deleter_args[b] = <<>>
          /\ CallsOf("deleter", b) = {}
          /\ CallsOf("allocate", b) # {} =>
                /\ blocks[b].shared_count = 1
                /\ blocks[b].weak_count = 0
                /\ Cardinality(SharedRefs(b)) = 1
          /\ \A s \in SharedRefs(b) :
                /\ IsBlock(b)
                /\ use_count(blocks, sp[s]) = Cardinality(SharedRefs(b))
                /\ get(blocks, sp[s]) = Null
          /\ (SharedRefs(b) # {} \/ WeakVarRefs(b) # {} \/ WeakMemberRefs(b) # {}) =>
                IsBlock(b) /\ deallocate_calls[b] = 0
          /\ (SharedRefs(b) = {} /\ WeakVarRefs(b) = {} /\ WeakMemberRefs(b) = {}) =>
                blocks[b].st = "freed" /\ deallocate_calls[b] = 1

\* C19 witness: the last operation destroyed the last WeakPtr of a block made
\* from a null raw pointer, after its last owner: destroy() was called once,
\* the deleter never, and the block has been deallocated, once.
C19_Witness ==
    \E b \in Blocks :
       /\ NullBlock(b)
       /\ blocks[b].st = "freed"
       /\ destroy_calls[b] = 1
       /\ deallocate_calls[b] = 1
       /\ deleter_args[b] = <<>>
       /\ CallsOf("deallocate", b) # {}
       /\ CallsOf("destroy", b) = {}

\* The step leaves the blocks and the call counters as ~WeakPtr leaves them
\* on a WeakPtr that references cb (as they are, when cb is Null).
ReleasedAsWeakDtor(cb) ==
    LET M == WeakDtor(Cur, cb)
    IN  /\ blocks' = M.blk
        /\ destroy_calls' = M.ndestroy
        /\ deallocate_calls' = M.ndealloc
        /\ deleter_args' = M.deleted

\* An empty WeakPtr reports no owner, is expired, and its lock() is empty and
\* touches nothing.
EmptyWeakObservers ==
    /\ use_count(blocks, Null) = 0
    /\ expired(blocks, Null)
    /\ lock(Cur, Null).cb = Null
    /\ lock(Cur, Null).m = Cur

\* Operations whose argument is an empty SharedPtr t.
EmptySharedArgument(s, t) ==
    /\ (Called("SharedPtr(copy)") /\ CopyCtor(s, t)) => sp'[s] = Null /\ NoBlockTouched
    /\ (Called("SharedPtr(move)") /\ MoveCtor(s, t)) => sp'[s] = Null /\ NoBlockTouched
    /\ (s # t /\ Called("=") /\ CopyAssign(s, t)) =>
          sp'[s] = Null /\ ReleasedAsDtor(sp[s])
    /\ (s # t /\ Called("= move") /\ MoveAssign(s, t)) =>
          sp'[s] = Null /\ ReleasedAsDtor(sp[s])
    /\ (s # t /\ sp[s] = Null /\ (Called("=") \/ Called("= move"))
           /\ (CopyAssign(s, t) \/ MoveAssign(s, t))) =>
          NoBlockTouched
    /\ (Called("swap") /\ (Swap(s, t) \/ Swap(t, s))) => NoBlockTouched
    /\ (s = t /\ Called("~SharedPtr") /\ Dtor(s)) => NoBlockTouched
    /\ (s = t /\ Called("self =") /\ CopyAssign(s, t)) => sp' = sp /\ NoBlockTouched
    /\ (s = t /\ Called("self = move") /\ MoveAssign(s, t)) => sp' = sp /\ NoBlockTouched
    /\ (sp[s] \in Blocks /\ blocks[sp[s]].obj /\ Called("member = shared")
           /\ MemberAssign(s, t)) =>
          LET M == WeakDtor(Cur, blocks[sp[s]].self)
          IN  /\ blocks' = [M.blk EXCEPT ![sp[s]].self = Null]
              /\ destroy_calls' = destroy_calls
              /\ deallocate_calls' = M.ndealloc
              /\ blocks[sp[s]].self = Null => blocks' = blocks

\* Operations of a WeakPtr w whose argument is an empty SharedPtr s.
EmptySharedToWeak(w, s) ==
    /\ (Called("WeakPtr(shared)") /\ WeakFromShared(w, s)) =>
          wp'[w] = Null /\ NoBlockTouched
    /\ (Called("weak = shared") /\ WeakAssignShared(w, s)) =>
          /\ wp'[w] = Null
          /\ ReleasedAsWeakDtor(wp[w])
          /\ wp[w] = Null => NoBlockTouched

\* Operations on an empty WeakPtr w, or whose argument is one.
EmptyWeakArgument(w, v) ==
    /\ IsLockStep =>
          \A s \in Shareds : Lock(s, v) => sp'[s] = Null /\ NoBlockTouched
    /\ (Called("WeakPtr(copy)") /\ WeakCopyCtor(w, <<"w", v>>)) =>
          wp'[w] = Null /\ wp'[v] = Null /\ NoBlockTouched
    /\ (Called("WeakPtr(move)") /\ WeakMoveCtor(w, <<"w", v>>)) =>
          wp'[w] = Null /\ wp'[v] = Null /\ NoBlockTouched
    /\ (w # v /\ (Called("weak =") \/ Called("weak = move"))
           /\ (WeakCopyAssign(w, <<"w", v>>) \/ WeakMoveAssign(w, <<"w", v>>))) =>
          /\ wp'[w] = Null
          /\ ReleasedAsWeakDtor(wp[w])
          /\ wp[w] = Null => NoBlockTouched
    /\ (w = v /\ (Called("weak self =") \/ Called("weak self = move"))
           /\ (WeakCopyAssign(w, <<"w", v>>) \/ WeakMoveAssign(w, <<"w", v>>))) =>
          wp' = wp /\ NoBlockTouched
    /\ (w = v /\ Called("~WeakPtr") /\ WeakDtorVar(w)) => NoBlockTouched

====
